---------------------------- MODULE Spec2Model ----------------------------
(***************************************************************************)
(* The per-scenario browser lifecycle of playwright-bdd: the world object  *)
(* (support/world.js), the Before and After hooks (support/hooks.js) and   *)
(* the runner configuration (cucumber.js).  Every `await` of a hook is a   *)
(* suspension point, so every hook is a chain of actions, one per awaited  *)
(* driver call; scenarios of different workers interleave at these points. *)
(***************************************************************************)
EXTENDS Integers, Sequences, FiniteSets, TLC

VARIABLES
    env,            \* process.env: [BROWSER, HEADLESS]
    handles,        \* the driver's objects, by id: browsers, contexts, pages
    world,          \* world instance -> [browser, context, page, attach]
    pc,             \* scenario -> position in its lifecycle
    result,         \* scenario -> scenario.result.status handed to After
    beforeError,    \* scenario -> what Before threw
    afterError,     \* scenario -> what After threw
    closeAttempts,  \* scenario -> the close() calls After has made, in order
    artifacts,      \* scenario -> what attach() put on the report record
    lastUse,        \* scenario -> outcome of the last goto/takeAndAttachScreenshot
    uses            \* scenario -> number of world operations called after teardown

vars == <<env, handles, world, pc, result, beforeError, afterError,
          closeAttempts, artifacts, lastUse, uses>>

-----------------------------------------------------------------------------
(* Bounds *)

\* world operations called on a world after its teardown has ended
MaxUses == 1

-----------------------------------------------------------------------------
(* Constants of the program *)

\* cucumber.js: parallel: 2
parallel == 2

\* world.js: this.browser = null
Null == 0

Unset == "<unset>"

\* the keys of the playwright module that are browser types
Engines == {"chromium", "firefox", "webkit"}

\* values of process.env.BROWSER
BrowserValues == {Unset, "", "firefox", "opera"}

\* values of process.env.HEADLESS
HeadlessValues == {Unset, "true", "false", "1"}

\* scenario.result.status as the runner reports it
Statuses == {"PASSED", "FAILED", "PENDING", "UNDEFINED", "SKIPPED"}

Scenarios == 1 .. parallel

\* one world object shared by every scenario
WorldShared(s) == 1

\* setWorldConstructor(CustomWorld): the runner constructs one world per scenario
WorldOf(s) == s

Worlds == {WorldOf(s) : s \in Scenarios}

-----------------------------------------------------------------------------
(* Pure functions *)

\* JavaScript a || d on strings: undefined and "" are falsy
JsOr(a, d) == IF a \in {Unset, ""} THEN d ELSE a

\* hooks.js: const browserName = process.env.BROWSER || 'chromium'
browserName(e) == JsOr(e.BROWSER, "chromium")

\* hooks.js: const headless = process.env.HEADLESS === 'true'
headless(e) == e.HEADLESS = "true"

\* String(status).toLowerCase()
ToLowerCase(st) ==
    CASE st = "PASSED" -> "passed"
      [] st = "FAILED" -> "failed"
      [] st = "PENDING" -> "pending"
      [] st = "UNDEFINED" -> "undefined"
      [] st = "SKIPPED" -> "skipped"
      [] OTHER -> st

\* the status compared as the runner spells it, without lower-casing
StatusComparedAsIs(st) == st # Unset /\ st = "failed"

\* hooks.js: scenario.result && String(scenario.result.status).toLowerCase() === 'failed'
StatusIsFailed(st) == st # Unset /\ ToLowerCase(st) = "failed"

\* CustomWorld.constructor
NewWorld == [browser |-> Null, context |-> Null, page |-> Null, attach |-> TRUE]

-----------------------------------------------------------------------------
(* The driver's objects *)

NextId == Len(handles) + 1

NewHandle(kind, parent, s, eng, hl) ==
    [kind |-> kind, parent |-> parent, owner |-> s, live |-> TRUE,
     usable |-> TRUE, engine |-> eng, headless |-> hl]

RECURSIVE Within(_, _)
\* h is a, or was opened inside a
Within(h, a) ==
    IF h = Null THEN FALSE
    ELSE IF h = a THEN TRUE
    ELSE Within(handles[h].parent, a)

\* close() resolved: the object and everything opened inside it is closed
Closed(a) ==
    [h \in DOMAIN handles |->
        IF Within(h, a) THEN [handles[h] EXCEPT !.live = FALSE] ELSE handles[h]]

-----------------------------------------------------------------------------
\* everything but the configuration and the schedule
Start ==
    /\ handles = <<>>
    /\ world = [w \in Worlds |-> NewWorld]
    /\ result = [s \in Scenarios |-> Unset]
    /\ beforeError = [s \in Scenarios |-> "none"]
    /\ afterError = [s \in Scenarios |-> "none"]
    /\ closeAttempts = [s \in Scenarios |-> <<>>]
    /\ artifacts = [s \in Scenarios |-> <<>>]
    /\ lastUse = [s \in Scenarios |-> "none"]
    /\ uses = [s \in Scenarios |-> 0]

\* one scenario to run, under every configuration: the second worker stays idle
Init ==
    /\ env \in [BROWSER : BrowserValues, HEADLESS : HeadlessValues]
    /\ pc = [s \in Scenarios |-> IF s = 1 THEN "UNINITIALIZED" ELSE "IDLE"]
    /\ Start

\* a scenario on each of the workers, under the default configuration
InitParallel ==
    /\ env = [BROWSER |-> Unset, HEADLESS |-> Unset]
    /\ pc = [s \in Scenarios |-> "UNINITIALIZED"]
    /\ Start

\* the runner on a throwing Before hook: the scenario is failed, its steps are
\* skipped and its After hooks still run
BeforeThrows(s, err) ==
    /\ pc' = [pc EXCEPT ![s] = "FAILED"]
    /\ result' = [result EXCEPT ![s] = "FAILED"]
    /\ beforeError' = [beforeError EXCEPT ![s] = err]

\* Before: this.browser = await playwright[browserName].launch({ headless })
BeforeLaunch(s) ==
    /\ pc[s] = "UNINITIALIZED"
    /\ \/ /\ browserName(env) \in Engines
          /\ handles' = Append(handles,
                 NewHandle("browser", Null, s, browserName(env), headless(env)))
          /\ world' = [world EXCEPT ![WorldOf(s)].browser = NextId]
          /\ pc' = [pc EXCEPT ![s] = "launched"]
          /\ UNCHANGED <<result, beforeError>>
       \/ /\ BeforeThrows(s, "launch")
          /\ UNCHANGED <<handles, world>>
    /\ UNCHANGED <<env, afterError, closeAttempts, artifacts, lastUse, uses>>

\* Before: this.context = await this.browser.newContext()
BeforeNewContext(s) ==
    /\ pc[s] = "launched"
    /\ \/ /\ handles' = Append(handles,
                 NewHandle("context", world[WorldOf(s)].browser, s, "", FALSE))
          /\ world' = [world EXCEPT ![WorldOf(s)].context = NextId]
          /\ pc' = [pc EXCEPT ![s] = "contexted"]
          /\ UNCHANGED <<result, beforeError>>
       \/ /\ BeforeThrows(s, "newContext")
          /\ UNCHANGED <<handles, world>>
    /\ UNCHANGED <<env, afterError, closeAttempts, artifacts, lastUse, uses>>

\* the page is opened but never stored on the world
BeforeNewPageNotStored(s) ==
    /\ pc[s] = "contexted"
    /\ \/ /\ handles' = Append(handles,
                 NewHandle("page", world[WorldOf(s)].context, s, "", FALSE))
          /\ pc' = [pc EXCEPT ![s] = "READY"]
          /\ UNCHANGED <<world, result, beforeError>>
       \/ /\ BeforeThrows(s, "newPage")
          /\ UNCHANGED <<handles, world>>
    /\ UNCHANGED <<env, afterError, closeAttempts, artifacts, lastUse, uses>>

\* Before: this.page = await this.context.newPage(), then the logging to the end
BeforeNewPage(s) ==
    /\ pc[s] = "contexted"
    /\ \/ /\ handles' = Append(handles,
                 NewHandle("page", world[WorldOf(s)].context, s, "", FALSE))
          /\ world' = [world EXCEPT ![WorldOf(s)].page = NextId]
          /\ pc' = [pc EXCEPT ![s] = "READY"]
          /\ UNCHANGED <<result, beforeError>>
       \/ /\ BeforeThrows(s, "newPage")
          /\ UNCHANGED <<handles, world>>
    /\ UNCHANGED <<env, afterError, closeAttempts, artifacts, lastUse, uses>>

-----------------------------------------------------------------------------
(* The world's operations *)

\* what a call on this.page runs into, in the order the code and the driver test it
PageCall(w) ==
    IF w.page = Null THEN "NoPageAvailable"          \* if (!this.page) throw
    ELSE IF ~handles[w.page].live THEN "targetClosed"
    ELSE IF ~handles[w.page].usable THEN "driverError"
    ELSE "ok"

\* CustomWorld.takeAndAttachScreenshot, called by scenario s
takeAndAttachScreenshot(s) ==
    LET w == world[WorldOf(s)] IN
    /\ lastUse' = [lastUse EXCEPT ![s] = PageCall(w)]
    /\ artifacts' =
         IF PageCall(w) = "ok" /\ w.attach
         THEN [artifacts EXCEPT ![s] = Append(@,
                  [mediaType |-> "image/png", fullPage |-> TRUE, page |-> w.page,
                   at |-> pc[s], closesBefore |-> Len(closeAttempts[s])])]
         ELSE artifacts

\* CustomWorld.goto, called by scenario s: a navigation of a usable page may
\* itself fail, and may leave the page unusable (crashed, closed by the site)
goto(s) ==
    LET w == world[WorldOf(s)] IN
    IF PageCall(w) = "ok"
    THEN \/ /\ lastUse' = [lastUse EXCEPT ![s] = "ok"]
            /\ UNCHANGED handles
         \/ /\ lastUse' = [lastUse EXCEPT ![s] = "driverError"]
            /\ \E gone \in BOOLEAN :
                 handles' = [handles EXCEPT ![w.page].usable = ~gone]
    ELSE /\ lastUse' = [lastUse EXCEPT ![s] = PageCall(w)]
         /\ UNCHANGED handles

-----------------------------------------------------------------------------
(* The steps of a scenario, between Before and After *)

\* a step that navigates through the world; a throwing step fails the scenario
StepGoto(s) ==
    /\ pc[s] = "READY"
    /\ goto(s)
    /\ IF lastUse'[s] = "ok"
       THEN UNCHANGED <<pc, result>>
       ELSE /\ pc' = [pc EXCEPT ![s] = "DONE"]
            /\ result' = [result EXCEPT ![s] = "FAILED"]
    /\ UNCHANGED <<env, world, beforeError, afterError, closeAttempts,
                   artifacts, uses>>

\* the steps end and the runner fixes scenario.result.status
ScenarioResult(s) ==
    /\ pc[s] = "READY"
    /\ \E st \in Statuses : result' = [result EXCEPT ![s] = st]
    /\ pc' = [pc EXCEPT ![s] = "DONE"]
    /\ UNCHANGED <<env, handles, world, beforeError, afterError, closeAttempts,
                   artifacts, lastUse, uses>>

-----------------------------------------------------------------------------
(* After *)

\* an await of After rejects: nothing catches it, the hook ends there
AfterThrows(s, err) ==
    /\ pc' = [pc EXCEPT ![s] = "ABORTED"]
    /\ afterError' = [afterError EXCEPT ![s] = err]

\* After: if (status is failed) await this.takeAndAttachScreenshot(...)
AfterEvidence(s) ==
    /\ pc[s] \in {"DONE", "FAILED"}
    /\ IF StatusIsFailed(result[s])
       THEN /\ takeAndAttachScreenshot(s)
            /\ IF lastUse'[s] = "ok"
               THEN /\ pc' = [pc EXCEPT ![s] = "closingPage"]
                    /\ UNCHANGED afterError
               ELSE AfterThrows(s, lastUse'[s])
       ELSE /\ pc' = [pc EXCEPT ![s] = "closingPage"]
            /\ UNCHANGED <<afterError, artifacts, lastUse>>
    /\ UNCHANGED <<env, handles, world, result, beforeError, closeAttempts, uses>>

\* one line of After: if (this.<field>) await this.<field>.close()
AfterClose(s, h, kind, next) ==
    IF h = Null
    THEN /\ pc' = [pc EXCEPT ![s] = next]
         /\ UNCHANGED <<handles, afterError, closeAttempts>>
    ELSE /\ closeAttempts' = [closeAttempts EXCEPT ![s] = Append(@, kind)]
         /\ \/ /\ handles' = Closed(h)
               /\ pc' = [pc EXCEPT ![s] = next]
               /\ UNCHANGED afterError
            \/ /\ AfterThrows(s, kind)
               /\ UNCHANGED handles

\* the page is closed and its reference dropped: this.page = null
AfterClosePageAndForget(s) ==
    /\ pc[s] = "closingPage"
    /\ AfterClose(s, world[WorldOf(s)].page, "page", "closingContext")
    /\ world' = [world EXCEPT ![WorldOf(s)].page =
                    IF pc'[s] = "closingContext" THEN Null ELSE @]
    /\ UNCHANGED <<env, result, beforeError, artifacts, lastUse, uses>>

\* After: if (this.page) await this.page.close()
AfterClosePage(s) ==
    /\ pc[s] = "closingPage"
    /\ AfterClose(s, world[WorldOf(s)].page, "page", "closingContext")
    /\ UNCHANGED <<env, world, result, beforeError, artifacts, lastUse, uses>>

\* After: if (this.context) await this.context.close()
AfterCloseContext(s) ==
    /\ pc[s] = "closingContext"
    /\ AfterClose(s, world[WorldOf(s)].context, "context", "closingBrowser")
    /\ UNCHANGED <<env, world, result, beforeError, artifacts, lastUse, uses>>

\* the browser's guard inverted: if (!this.browser), so it is never closed
AfterSkipsBrowser(s) ==
    /\ pc[s] = "closingBrowser"
    /\ AfterClose(s, Null, "browser", "CLOSED")
    /\ UNCHANGED <<env, world, result, beforeError, artifacts, lastUse, uses>>

\* After: if (this.browser) await this.browser.close(), and the hook returns
AfterCloseBrowser(s) ==
    /\ pc[s] = "closingBrowser"
    /\ AfterClose(s, world[WorldOf(s)].browser, "browser", "CLOSED")
    /\ UNCHANGED <<env, world, result, beforeError, artifacts, lastUse, uses>>

\* After has ended, by returning or by throwing
Ended(s) == pc[s] \in {"CLOSED", "ABORTED"}

\* the status the runner reports: a throwing hook fails the scenario
FinalStatus(s) == IF afterError[s] # "none" THEN "FAILED" ELSE result[s]

-----------------------------------------------------------------------------
(* Use of a world after its teardown *)

LateGoto(s) ==
    /\ Ended(s)
    /\ uses[s] < MaxUses
    /\ goto(s)
    /\ uses' = [uses EXCEPT ![s] = @ + 1]
    /\ UNCHANGED <<env, world, pc, result, beforeError, afterError,
                   closeAttempts, artifacts>>

LateScreenshot(s) ==
    /\ Ended(s)
    /\ uses[s] < MaxUses
    /\ takeAndAttachScreenshot(s)
    /\ uses' = [uses EXCEPT ![s] = @ + 1]
    /\ UNCHANGED <<env, handles, world, pc, result, beforeError, afterError,
                   closeAttempts>>

-----------------------------------------------------------------------------
Next ==
    \E s \in Scenarios :
        \/ BeforeLaunch(s)
        \/ BeforeNewContext(s)
        \/ BeforeNewPage(s)
        \/ StepGoto(s)
        \/ ScenarioResult(s)
        \/ AfterEvidence(s)
        \/ AfterClosePage(s)
        \/ AfterCloseContext(s)
        \/ AfterCloseBrowser(s)
        \/ LateGoto(s)
        \/ LateScreenshot(s)

Spec == Init /\ [][Next]_vars

SpecParallel == InitParallel /\ [][Next]_vars


-----------------------------------------------------------------------------
(* Vocabulary of the properties *)

W(s) == world[WorldOf(s)]

Fields == <<"page", "context", "browser">>

\* the close() calls a complete teardown makes: one per handle the world holds
Held(s) == SelectSeq(Fields, LAMBDA f : W(s)[f] # Null)

\* what takeAndAttachScreenshot throws
CaptureErrors == {"NoPageAvailable", "targetClosed", "driverError"}

\* the artifacts attached by After
TeardownArtifacts(s) ==
    SelectSeq(artifacts[s], LAMBDA a : a.at \in {"DONE", "FAILED"})

PastEvidence(s) ==
    pc[s] \in {"closingPage", "closingContext", "closingBrowser", "CLOSED", "ABORTED"}

\* Before returned without throwing
SetupCompleted(s) ==
    /\ pc[s] \notin {"IDLE", "UNINITIALIZED", "launched", "contexted"}
    /\ beforeError[s] = "none"

\* the handles scenario s opened that are still open
LiveOf(s) == {h \in DOMAIN handles : handles[h].owner = s /\ handles[h].live}

LiveKinds(s) == {handles[h].kind : h \in LiveOf(s)}

-----------------------------------------------------------------------------
\* C1: once After is past evidence capture, it attempts page.close(),
\* context.close() and browser.close() for every handle the world holds, in
\* that order, whichever of them fail, and no release failure leaves After.
C1_ReleasesIndependentlyGuarded ==
    \A s \in Scenarios :
        (Ended(s) /\ afterError[s] \notin CaptureErrors)
            => /\ closeAttempts[s] = Held(s)
               /\ afterError[s] = "none"

\* C2: for a failed scenario whose page cannot be captured, After swallows the
\* capture failure: it does not throw it, attaches nothing and goes on to
\* release the page.
C2_CaptureFailureSwallowed ==
    \A s \in Scenarios :
        (/\ Ended(s)
         /\ StatusIsFailed(result[s])
         /\ W(s).page # Null
         /\ ~handles[W(s).page].usable)
            => /\ afterError[s] \notin CaptureErrors
               /\ TeardownArtifacts(s) = <<>>
               /\ closeAttempts[s] # <<>>

\* C3: After attaches only when the status is failed; a failed scenario with
\* a usable page gets exactly one artifact, a full-page "image/png" of the
\* world's page taken before any close(); no scenario gets more than one.
C3_AttachIffFailed ==
    \A s \in Scenarios :
        LET got == TeardownArtifacts(s) IN
        /\ Len(got) <= 1
        /\ got # <<>> => result[s] = "FAILED"
        /\ \A i \in DOMAIN got :
              /\ got[i].mediaType = "image/png"
              /\ got[i].fullPage
              /\ got[i].page = W(s).page
              /\ got[i].closesBefore = 0
        /\ (/\ PastEvidence(s)
            /\ result[s] = "FAILED"
            /\ W(s).page # Null
            /\ handles[W(s).page].usable) => Len(got) = 1

C3_Witness ==
    \E s \in Scenarios :
        /\ pc[s] = "CLOSED"
        /\ result[s] = "FAILED"
        /\ Len(TeardownArtifacts(s)) = 1

\* C4: when launch failed, so that the world holds no handle and the status
\* is failed, After returns normally: no error, no close() call, no artifact.
C4_SetupFailureTeardownClean ==
    \A s \in Scenarios :
        (Ended(s) /\ beforeError[s] = "launch")
            => /\ pc[s] = "CLOSED"
               /\ afterError[s] = "none"
               /\ closeAttempts[s] = <<>>
               /\ artifacts[s] = <<>>

\* C5: when newContext() or newPage() failed, nothing the scenario opened is
\* still open once After has ended.
C5_PartialSetupReleased ==
    \A s \in Scenarios :
        (Ended(s) /\ beforeError[s] \in {"newContext", "newPage"})
            => LiveOf(s) = {}

\* C6: once Before has returned, the world holds a browser, a context opened
\* in that browser and a page opened in that context, the only three handles
\* the scenario opened; a throwing Before never reaches READY and leaves the
\* scenario failed.
C6_SetupYieldsTriple ==
    \A s \in Scenarios :
        /\ SetupCompleted(s) =>
              LET w == W(s) IN
              /\ w.browser # Null /\ w.context # Null /\ w.page # Null
              /\ handles[w.browser].kind = "browser"
              /\ handles[w.context].kind = "context"
              /\ handles[w.page].kind = "page"
              /\ handles[w.browser].parent = Null
              /\ handles[w.context].parent = w.browser
              /\ handles[w.page].parent = w.context
              /\ {h \in DOMAIN handles : handles[h].owner = s}
                    = {w.browser, w.context, w.page}
              /\ pc[s] = "READY" => LiveOf(s) = {w.browser, w.context, w.page}
        /\ beforeError[s] # "none" =>
              /\ pc[s] \notin {"READY", "DONE", "CLOSED"}
              /\ result[s] = "FAILED"
              /\ FinalStatus(s) = "FAILED"
              /\ W(s).page = Null

C6_Witness ==
    \E s \in Scenarios :
        /\ pc[s] = "READY"
        /\ W(s).page # Null
        /\ handles[W(s).page].live

\* C7 as stated: once After has returned, goto and takeAndAttachScreenshot
\* raise "No page available".
C7_UseAfterTeardownRaisesNoPage ==
    \A s \in Scenarios :
        (pc[s] = "CLOSED" /\ uses[s] > 0) => lastUse[s] = "NoPageAvailable"

\* C7 amended: once After has ended, goto and takeAndAttachScreenshot raise
\* "No page available" exactly when Before never stored a page; otherwise the
\* world still holds the reference and the call goes through to the driver,
\* and when After returned normally every handle of the scenario is closed,
\* so the call fails in the driver on the closed page.
C7_UseAfterTeardownReachesClosedPage ==
    \A s \in Scenarios :
        (Ended(s) /\ uses[s] > 0) =>
            /\ lastUse[s] = "NoPageAvailable" <=> W(s).page = Null
            /\ W(s).page = Null <=> beforeError[s] # "none"
            /\ pc[s] = "CLOSED" =>
                  /\ W(s).page # Null /\ W(s).context # Null /\ W(s).browser # Null
                  /\ LiveOf(s) = {}
                  /\ lastUse[s] = "targetClosed"

C7_Witness ==
    \E s \in Scenarios :
        /\ pc[s] = "CLOSED"
        /\ uses[s] > 0
        /\ lastUse[s] = "targetClosed"

\* C8: the engine is chromium when BROWSER is unset, and the launch is headed
\* only when HEADLESS is 'false'.
C8_HeadlessByDefault ==
    \A s \in Scenarios :
        W(s).browser # Null =>
            /\ env.BROWSER = Unset => handles[W(s).browser].engine = "chromium"
            /\ handles[W(s).browser].headless = (env.HEADLESS # "false")

\* C9: the scenarios have distinct worlds, a world only ever holds handles
\* its own scenario opened, and a handle is only ever closed by a step of the
\* scenario that opened it.
C9_Isolation ==
    /\ [](\A s, u \in Scenarios : s # u => WorldOf(s) # WorldOf(u))
    /\ [](\A s \in Scenarios : \A i \in DOMAIN Fields :
             W(s)[Fields[i]] # Null => handles[W(s)[Fields[i]]].owner = s)
    /\ [][\A h \in DOMAIN handles :
             (handles[h].live /\ ~handles'[h].live)
                 => pc'[handles[h].owner] # pc[handles[h].owner]]_vars

C9_Witness ==
    \E s, u \in Scenarios :
        /\ s # u
        /\ pc[s] = "CLOSED"
        /\ pc[u] = "READY"
        /\ Cardinality(LiveOf(u)) = 3
        /\ LiveOf(s) = {}

\* C10 as stated: in every state a scenario has a live browser, a live
\* session and a live page, or none of the three.
C10_AllOrNoneLive ==
    \A s \in Scenarios :
        LiveKinds(s) \in {{}, {"browser", "context", "page"}}

\* C10 amended: in every state a scenario has at most one live browser, one
\* live session and one live page, a live page lies in a live session and a
\* live session in a live browser; all three are live in READY and none is
\* live in UNINITIALIZED and once After has returned. In between (during
\* setup and teardown, and after a failure of either) a browser can be live
\* without a page.
C10_LiveHandlesNested ==
    \A s \in Scenarios :
        /\ Cardinality(LiveOf(s)) = Cardinality(LiveKinds(s))
        /\ \A h \in LiveOf(s) :
              handles[h].parent # Null => handles[h].parent \in LiveOf(s)
        /\ pc[s] = "READY" => LiveKinds(s) = {"browser", "context", "page"}
        /\ pc[s] \in {"IDLE", "UNINITIALIZED", "CLOSED"} => LiveKinds(s) = {}

C10_Witness ==
    \E s \in Scenarios :
        /\ pc[s] = "ABORTED"
        /\ LiveKinds(s) = {"browser"}

=============================================================================
